---- MODULE Spec2Model ----
(***************************************************************************)
(* A model of the MessagePack encoder and decoder of src/encoder.go.       *)
(*                                                                         *)
(* Byte sequences (streams, strings, byte slices, pooled buffers) are kept *)
(* run-length encoded: a sequence of runs [b |-> byte, n |-> count], no    *)
(* two neighbours with the same byte and no empty run, so that equal byte  *)
(* sequences are equal values.  Counts and 32-bit quantities do not fit    *)
(* TLC's 32-bit integers, so a count is a pair <<hi, lo>> of 16-bit        *)
(* limbs standing for hi * 65536 + lo, and a 64-bit word is four limbs.    *)
(***************************************************************************)
EXTENDS Integers, Sequences, FiniteSets, TLC

\* ------------------------------------------------------------------------
\* Counts: <<hi, lo>> stands for hi * 65536 + lo (Go's 64-bit int, len(s)).
\* ------------------------------------------------------------------------
Base == 256 * 256

Sz(n) == <<n \div Base, n % Base>>

Zero == Sz(0)

One == Sz(1)

SzAdd(a, b) == <<a[1] + b[1] + ((a[2] + b[2]) \div Base), (a[2] + b[2]) % Base>>

SzLeq(a, b) == a[1] < b[1] \/ (a[1] = b[1] /\ a[2] <= b[2])

SzLt(a, b) == SzLeq(a, b) /\ a # b

\* a - b for b <= a
SzSub(a, b) ==
    IF a[2] >= b[2] THEN <<a[1] - b[1], a[2] - b[2]>>
    ELSE <<a[1] - b[1] - 1, a[2] + Base - b[2]>>

SzMin(a, b) == IF SzLeq(a, b) THEN a ELSE b

\* math.MaxUint8, math.MaxUint16, math.MaxUint32
MaxUint8 == 255

MaxUint16 == 65535

MaxUint32 == <<MaxUint16, MaxUint16>>

\* ------------------------------------------------------------------------
\* Byte sequences as runs.
\* ------------------------------------------------------------------------
Run(b, n) == IF n = Zero THEN <<>> ELSE <<[b |-> b, n |-> n]>>

\* concatenation of two byte sequences
Cat(x, y) ==
    IF x = <<>> THEN y
    ELSE IF y = <<>> THEN x
    ELSE IF x[Len(x)].b = y[1].b
         THEN SubSeq(x, 1, Len(x) - 1)
              \o <<[b |-> y[1].b, n |-> SzAdd(x[Len(x)].n, y[1].n)]>>
              \o Tail(y)
         ELSE x \o y

RECURSIVE Bytes(_)
\* the byte sequence holding the bytes of the tuple s
Bytes(s) == IF s = <<>> THEN <<>> ELSE Cat(Run(s[1], One), Bytes(Tail(s)))

RECURSIVE WLen(_)
\* len(): the number of bytes
WLen(w) == IF w = <<>> THEN Zero ELSE SzAdd(w[1].n, WLen(Tail(w)))

RECURSIVE Take(_, _)
\* the first l bytes of w (all of w when it is shorter)
Take(w, l) ==
    IF w = <<>> \/ l = Zero THEN <<>>
    ELSE IF SzLeq(w[1].n, l) THEN Cat(<<w[1]>>, Take(Tail(w), SzSub(l, w[1].n)))
    ELSE Run(w[1].b, l)

RECURSIVE Drop(_, _)
\* w without its first l bytes
Drop(w, l) ==
    IF w = <<>> \/ l = Zero THEN w
    ELSE IF SzLeq(w[1].n, l) THEN Drop(Tail(w), SzSub(l, w[1].n))
    ELSE <<[b |-> w[1].b, n |-> SzSub(w[1].n, l)]>> \o Tail(w)

\* the i-th byte (1-based, small i) of w, for w holding at least i bytes
ByteAt(w, i) == Take(Drop(w, Sz(i - 1)), One)[1].b

\* ------------------------------------------------------------------------
\* Big-endian integers on the wire.
\* ------------------------------------------------------------------------
U8Bytes(n) == <<n>>

U16Bytes(n) == <<n \div 256, n % 256>>

U32Bytes(p) == U16Bytes(p[1]) \o U16Bytes(p[2])

U64Bytes(q) == U16Bytes(q[1]) \o U16Bytes(q[2]) \o U16Bytes(q[3]) \o U16Bytes(q[4])

\* ------------------------------------------------------------------------
\* The tag catalogue.
\* ------------------------------------------------------------------------
FixMap0 == 128

FixMap15 == 143

FixArray0 == 144

FixArray15 == 159

FixStr0 == 160

FixStr31 == 191

Nil == 192

False == 194

True == 195

Bin8 == 196

Bin16 == 197

Bin32 == 198

Ext8 == 199

Ext16 == 200

Ext32 == 201

Float == 202

Double == 203

Uint8 == 204

Uint16 == 205

Uint32 == 206

Uint64 == 207

Int8 == 208

Int16 == 209

Int32 == 210

Int64 == 211

FixExt1 == 212

FixExt2 == 213

FixExt4 == 214

FixExt8 == 215

FixExt16 == 216

Str8 == 217

Str16 == 218

Str32 == 219

Array16 == 220

Array32 == 221

Map16 == 222

Map32 == 223

IsMapFamily(code) == (code >= FixMap0 /\ code <= FixMap15) \/ code = Map16 \/ code = Map32

\* ------------------------------------------------------------------------
\* Errors.  NoErr is Go's nil error.
\* ------------------------------------------------------------------------
NoErr == "nil"

\* ------------------------------------------------------------------------
\* The Writer the Encoder writes to (e.dst).  An encoder state es holds
\*   dst     the bytes the underlying stream has accepted,
\*   calls   the number of writes issued in the current Encode call,
\*   failAt  the first write of the call that the stream refuses (0: none);
\*           a stream that has failed keeps failing,
\*   ok      whether the latest write succeeded,
\*   failed  whether any write of the call failed,
\*   pool    the scratch-buffer pool.
\* ------------------------------------------------------------------------
Write(es, w) ==
    LET good == es.failAt = 0 \/ es.calls + 1 < es.failAt
    IN  [es EXCEPT !.calls = @ + 1,
                   !.dst = IF good THEN Cat(@, w) ELSE @,
                   !.ok = good,
                   !.failed = @ \/ ~good]

WriteByte(es, b) == Write(es, Bytes(<<b>>))

WriteUint8(es, n) == Write(es, Bytes(U8Bytes(n)))

WriteUint16(es, n) == Write(es, Bytes(U16Bytes(n)))

WriteUint32(es, p) == Write(es, Bytes(U32Bytes(p)))

WriteByteUint8(es, b, n) == Write(es, Bytes(<<b>> \o U8Bytes(n)))

WriteByteUint16(es, b, n) == Write(es, Bytes(<<b>> \o U16Bytes(n)))

WriteByteUint32(es, b, p) == Write(es, Bytes(<<b>> \o U32Bytes(p)))

WriteByteUint64(es, b, q) == Write(es, Bytes(<<b>> \o U64Bytes(q)))

WriteString(es, s) == Write(es, s)

Ret(es, err) == [es |-> es, err |-> err]

\* an error-checked write: the error of the latest write, wrapped as msg
Chk(es, msg) == Ret(es, IF es.ok THEN NoErr ELSE msg)

\* ------------------------------------------------------------------------
\* Host values: [t |-> type, v |-> value].
\*   bool: BOOLEAN; uint8, uint16, int8, int16, int32: an integer;
\*   uint32: two limbs; uint64: four limbs; int64: four limbs, the top one
\*   signed; float32 / float64: the IEEE-754 bit pattern (two / four limbs);
\*   string, bytes: a byte sequence.
\* ------------------------------------------------------------------------
V(t, v) == [t |-> t, v |-> v]

\* the conversions uint8(i), uint16(i), uint32(i), uint64(i) of signed i
ToUint8(i) == i % 256

ToUint16(i) == i % Base

ToUint32(i) == <<(i \div Base) % Base, i % Base>>

ToUint64(i) == <<i[1] % Base, i[2], i[3], i[4]>>

\* the conversions int8(v), int16(v), int32(v), int64(v) of unsigned v
ToInt8(v) == IF v >= 128 THEN v - 256 ELSE v

ToInt16(v) == IF v >= 32768 THEN v - Base ELSE v

ToInt32(p) == (IF p[1] >= 32768 THEN p[1] - Base ELSE p[1]) * Base + p[2]

ToInt64(q) == <<IF q[1] >= 32768 THEN q[1] - Base ELSE q[1], q[2], q[3], q[4]>>

\* uint8(l), uint16(l), uint32(l) of a length l
LenUint8(l) == l[2] % 256

LenUint16(l) == l[2]

LenUint32(l) == <<l[1] % Base, l[2]>>

\* math.Float32bits, math.Float64bits and their inverses
Float32bits(f) == f.bits

Float64bits(f) == f.bits

Float32frombits(n) == [bits |-> n]

Float64frombits(n) == [bits |-> n]

\* ------------------------------------------------------------------------
\* Scalar encoders.
\* ------------------------------------------------------------------------
EncodeNil(es) == Chk(WriteByte(es, Nil), "io")

EncodeBool(es, b) == Chk(WriteByte(es, IF b THEN True ELSE False), "io")

EncodeFloat32(es, f) ==
    Chk(WriteByteUint32(es, Float, Float32bits(f)), "msgpack: failed to write Float")

EncodeFloat64(es, f) ==
    Chk(WriteByteUint64(es, Double, Float64bits(f)), "msgpack: failed to write Double")

EncodeUint8(es, i) == Chk(WriteByteUint8(es, Uint8, i), "msgpack: failed to write Uint8")

EncodeUint16(es, i) == Chk(WriteByteUint16(es, Uint16, i), "msgpack: failed to write Uint16")

EncodeUint32(es, i) == Chk(WriteByteUint32(es, Uint32, i), "msgpack: failed to write Uint32")

EncodeUint64(es, i) == Chk(WriteByteUint64(es, Uint64, i), "msgpack: failed to write Uint64")

EncodeInt8(es, i) ==
    Chk(WriteByteUint8(es, Int8, ToUint8(i)), "msgpack: failed to write Int8")

EncodeInt16(es, i) ==
    Chk(WriteByteUint16(es, Int16, ToUint16(i)), "msgpack: failed to write Int16")

EncodeInt32(es, i) ==
    Chk(WriteByteUint32(es, Int32, ToUint32(i)), "msgpack: failed to write Int32")

EncodeInt64(es, i) ==
    Chk(WriteByteUint64(es, Int64, ToUint64(i)), "msgpack: failed to write Int64")

writePreamble(es, code, w, l) ==
    LET length(e1) ==
            IF ~e1.ok THEN Ret(e1, "msgpack: failed to write code")
            ELSE CASE w = 1 -> Chk(WriteUint8(e1, LenUint8(l)), "msgpack: failed to write length")
                   [] w = 2 -> Chk(WriteUint16(e1, LenUint16(l)), "msgpack: failed to write length")
                   [] w = 4 -> Chk(WriteUint32(e1, LenUint32(l)), "msgpack: failed to write length")
                   [] OTHER -> Ret(e1, NoErr)
    IN  length(WriteByte(es, code))

EncodeBytes(es, b) ==
    LET code(l) == CASE SzLeq(l, Sz(MaxUint8)) -> Bin8
                     [] SzLeq(l, Sz(MaxUint16)) -> Bin16
                     [] OTHER -> Bin32
        w(l) == CASE SzLeq(l, Sz(MaxUint8)) -> 1
                  [] SzLeq(l, Sz(MaxUint16)) -> 2
                  [] OTHER -> 4
        payload(p) == IF p.err # NoErr
                      THEN Ret(p.es, "msgpack: failed to write []byte preamble")
                      ELSE Ret(Write(p.es, b), NoErr)
        sized(l) == IF ~SzLeq(l, MaxUint32) THEN Ret(es, "msgpack: string is too long")
                    ELSE payload(writePreamble(es, code(l), w(l), l))
    IN  sized(WLen(b))

\* EncodeString with the FixStr class stretched to 32 bytes
EncodeStringFix32(es, s) ==
    LET l == WLen(s)
    IN  CASE SzLeq(l, Sz(32)) ->
               Ret(WriteString(WriteByte(es, FixStr0 + LenUint8(l)), s), NoErr)
          [] ~SzLeq(l, Sz(32)) /\ SzLeq(l, Sz(MaxUint8)) ->
               Ret(WriteString(WriteUint8(WriteByte(es, Str8), LenUint8(l)), s), NoErr)
          [] ~SzLeq(l, Sz(MaxUint8)) /\ SzLeq(l, Sz(MaxUint16)) ->
               Ret(WriteString(WriteUint16(WriteByte(es, Str16), LenUint16(l)), s), NoErr)
          [] ~SzLeq(l, Sz(MaxUint16)) /\ SzLeq(l, MaxUint32) ->
               Ret(WriteString(WriteUint32(WriteByte(es, Str32), LenUint32(l)), s), NoErr)
          [] OTHER -> Ret(es, "msgpack: string is too long")

EncodeString(es, s) ==
    LET l == WLen(s)
    IN  CASE SzLt(l, Sz(32)) ->
               Ret(WriteString(WriteByte(es, FixStr0 + LenUint8(l)), s), NoErr)
          [] ~SzLt(l, Sz(32)) /\ SzLeq(l, Sz(MaxUint8)) ->
               Ret(WriteString(WriteUint8(WriteByte(es, Str8), LenUint8(l)), s), NoErr)
          [] ~SzLeq(l, Sz(MaxUint8)) /\ SzLeq(l, Sz(MaxUint16)) ->
               Ret(WriteString(WriteUint16(WriteByte(es, Str16), LenUint16(l)), s), NoErr)
          [] ~SzLeq(l, Sz(MaxUint16)) /\ SzLeq(l, MaxUint32) ->
               Ret(WriteString(WriteUint32(WriteByte(es, Str32), LenUint32(l)), s), NoErr)
          [] OTHER -> Ret(es, "msgpack: string is too long")

\* ------------------------------------------------------------------------
\* Host types of composite values.
\*   "[]interface{}", "[]string"                  slices (v: a tuple of values)
\*   "map[string]interface{}", "map[uint8]bool"   maps (v: a function on keys)
\*   "*T"                                         a pointer (v: the value, or
\*                                                NilPtr for a nil pointer)
\*   "Person"                                     a record (v: a tuple of the
\*                                                field values, in field order)
\*   "Stamp"                                      a user type with an extension
\*                                                codec and no exported field
\*                                                (v: [payload, fail])
\* ------------------------------------------------------------------------
S1(c) == Bytes(<<c>>)

NilPtr == V("nilptr", 0)

SliceTypes == {"[]interface{}", "[]string"}

MapTypes == {"map[string]interface{}", "map[uint8]bool"}

StructTypes == {"Person", "Owner", "Stamp"}

\* reflect.Type.Elem() of the pointer type *Person
PtrElem(t) == IF t = "*Person" THEN "Person" ELSE "T"

\* reflect.Type.Key().Kind() of a map type
KeyKind(t) == IF t = "map[string]interface{}" THEN "string" ELSE "uint8"

\* reflect.Type.Elem().Kind() of a slice or map type
ElemKind(t) ==
    CASE t = "[]string" -> "string"
      [] t = "map[uint8]bool" -> "bool"
      [] OTHER -> "interface"

\* reflect.Value.Kind()
Kind(t) ==
    CASE t \in SliceTypes -> "slice"
      [] t \in MapTypes -> "map"
      [] t \in StructTypes -> "struct"
      [] t \in {"*T", "*Person"} -> "ptr"
      [] OTHER -> t

\* The declared fields of the record types: Go name, the msgpack struct tag
\* split at commas (<<>> for no tag), declared type, and PkgPath = "" (exported).
\*   type Person struct {
\*       Name string `msgpack:"n"`
\*       Age  uint8  `msgpack:"a,omitempty"`
\*       Skip string `msgpack:"-"`
\*       priv string
\*   }
\*   type Owner struct {
\*       Pet *Person `msgpack:"p"`
\*   }
StructFields(t) ==
    IF t = "Owner"
    THEN << [name |-> Bytes(<<80, 101, 116>>), tag |-> <<S1(112)>>,
             typ |-> "*Person", exported |-> TRUE] >>
    ELSE IF t = "Person"
    THEN << [name |-> Bytes(<<78, 97, 109, 101>>), tag |-> <<S1(110)>>,
             typ |-> "string", exported |-> TRUE],
            [name |-> Bytes(<<65, 103, 101>>), tag |-> <<S1(97), "omitempty">>,
             typ |-> "uint8", exported |-> TRUE],
            [name |-> Bytes(<<83, 107, 105, 112>>), tag |-> <<S1(45)>>,
             typ |-> "string", exported |-> TRUE],
            [name |-> Bytes(<<112, 114, 105, 118>>), tag |-> <<>>,
             typ |-> "string", exported |-> FALSE] >>
    ELSE <<>>

parseMsgpackTag(f) ==
    [name |-> IF Len(f.tag) > 0 /\ f.tag[1] # <<>> THEN f.tag[1] ELSE f.name,
     omitempty |-> Len(f.tag) > 1 /\ f.tag[2] = "omitempty"]

RECURSIVE ZeroOf(_)
\* reflect.Zero(t): the zero value of type t
ZeroOf(t) ==
    CASE t \in {"string", "bytes"} -> V(t, <<>>)
      [] t \in {"uint8", "uint16", "int8", "int16", "int32"} -> V(t, 0)
      [] t = "uint32" -> V(t, <<0, 0>>)
      [] t \in {"uint64", "int64"} -> V(t, <<0, 0, 0, 0>>)
      [] t = "float32" -> V(t, [bits |-> <<0, 0>>])
      [] t = "float64" -> V(t, [bits |-> <<0, 0, 0, 0>>])
      [] t = "bool" -> V(t, FALSE)
      [] t \in {"Person", "Owner"} ->
            V(t, [i \in 1..Len(StructFields(t)) |-> ZeroOf(StructFields(t)[i].typ)])
      [] t = "Stamp" -> V(t, [payload |-> <<>>, fail |-> FALSE])
      [] t \in {"*T", "*Person"} -> V(t, NilPtr)
      [] OTHER -> V("nil", 0)

\* ------------------------------------------------------------------------
\* The scratch-buffer pool: a stack of buffers, each the bytes it holds.
\* Get takes the buffer released last when there is one and a fresh empty
\* buffer otherwise; Release empties the buffer and puts it back.
\* ------------------------------------------------------------------------
PoolGet(pool) ==
    IF pool = <<>> THEN [buf |-> <<>>, pool |-> <<>>]
    ELSE [buf |-> pool[1], pool |-> Tail(pool)]

PoolRelease(pool) == <<<<>>>> \o pool

\* ------------------------------------------------------------------------
\* Headers of arrays and maps.
\* ------------------------------------------------------------------------
WriteArrayHeader(es, l) ==
    CASE l < 16 -> WriteByte(es, FixArray0 + l)
      [] l >= 16 /\ l <= MaxUint16 -> WriteByteUint16(es, Array16, l)
      [] OTHER -> WriteByteUint32(es, Array32, Sz(l))

WriteMapHeader(es, l) ==
    CASE l < 16 -> WriteByte(es, FixMap0 + l)
      [] l >= 16 /\ l <= MaxUint16 -> WriteByteUint16(es, Map16, l)
      [] OTHER -> WriteByteUint32(es, Map32, Sz(l))

EncodeArrayHeader(es, l) ==
    Chk(WriteArrayHeader(es, l), "msgpack: failed to write array header")

\* ------------------------------------------------------------------------
\* Extensions.
\* ------------------------------------------------------------------------
\* isExtType: the code registered for host type t in extEncodeRegistry
isExtType(es, t) == t \in DOMAIN es.encReg

\* v.EncodeMsgpackExt(w): the user's encoder appends the payload to the
\* scratch buffer, or fails
EncodeMsgpackExt(buf, v) ==
    IF v.fail THEN [buf |-> buf, err |-> "user"]
    ELSE [buf |-> Cat(buf, v.payload), err |-> NoErr]

\* the tag and length prefix of an extension of l bytes
extHead(es, l) ==
    LET length(e1, w, msg) ==
            IF ~e1.ok THEN Ret(e1, msg[1])
            ELSE CASE w = 1 -> Chk(WriteByte(e1, LenUint8(l)), msg[2])
                   [] w = 2 -> Chk(WriteUint16(e1, LenUint16(l)), msg[2])
                   [] OTHER -> Chk(WriteUint32(e1, LenUint32(l)), msg[2])
    IN  CASE l = Sz(1) -> Chk(WriteByte(es, FixExt1), "msgpack: failed to write fixext1 code")
          [] l = Sz(2) -> Chk(WriteByte(es, FixExt2), "msgpack: failed to write fixext2 code")
          [] l = Sz(4) -> Chk(WriteByte(es, FixExt4), "msgpack: failed to write fixext4 code")
          [] l = Sz(8) -> Chk(WriteByte(es, FixExt8), "msgpack: failed to write fixext8 code")
          [] l = Sz(16) -> Chk(WriteByte(es, FixExt16), "msgpack: failed to write fixext16 code")
          [] l \notin {Sz(1), Sz(2), Sz(4), Sz(8), Sz(16)} /\ SzLeq(l, Sz(MaxUint8)) ->
                length(WriteByte(es, Ext8), 1,
                       <<"msgpack: failed to write ext8 code",
                         "msgpack: failed to write ext8 payload length">>)
          [] ~SzLeq(l, Sz(MaxUint8)) /\ SzLeq(l, Sz(MaxUint16)) ->
                length(WriteByte(es, Ext16), 2,
                       <<"msgpack: failed to write ext16 code",
                         "msgpack: failed to write ext16 payload length">>)
          [] ~SzLeq(l, Sz(MaxUint16)) /\ SzLeq(l, MaxUint32) ->
                length(WriteByte(es, Ext32), 4,
                       <<"msgpack: failed to write ext32 code",
                         "msgpack: failed to write ext32 payload length">>)
          [] OTHER -> Ret(es, "msgpack: extension payload too large")

\* buf.WriteTo(e.dst): one write of the buffer's bytes, none for an empty buffer
BufWriteTo(es, buf) == IF buf = <<>> THEN [es EXCEPT !.ok = TRUE] ELSE Write(es, buf)

EncodeExt(es, typ, v) ==
    LET \* the deferred bufferpool.Release(buf)
        rel(g, r) == Ret([r.es EXCEPT !.pool = PoolRelease(g.pool)], r.err)
        payload(g, u, e2) ==
            IF ~e2.ok THEN rel(g, Ret(e2, "msgpack: failed to write typ code"))
            ELSE rel(g, Chk(BufWriteTo(e2, u.buf), "msgpack: failed to write extention payload"))
        code(g, u, h) ==
            IF h.err # NoErr THEN rel(g, h) ELSE payload(g, u, WriteByte(h.es, typ % 256))
        head(g, u) ==
            IF u.err # NoErr
            THEN rel(g, Ret(es, "msgpack: failed during call to EncodeMsgpackExt"))
            ELSE code(g, u, extHead(es, WLen(u.buf)))
        user(g) == head(g, EncodeMsgpackExt(g.buf, v))
    IN  user(PoolGet(es.pool))

\* ------------------------------------------------------------------------
\* The Encoder facade and the composite encoders.  ord is the order in
\* which the runtime yields the keys of the map being encoded (rv.MapKeys()),
\* <<>> for a value that is no map.
\* ------------------------------------------------------------------------
RECURSIVE Encode(_, _, _)
RECURSIVE EncodeArray(_, _, _)
RECURSIVE EncodeMap(_, _, _)
RECURSIVE EncodeStruct(_, _, _)
RECURSIVE encodeItems(_, _, _, _)
RECURSIVE encodePairs(_, _, _, _)
RECURSIVE mapbEncode(_, _, _)
RECURSIVE INDIRECT(_, _, _)

\* the loop `for i := 0; i < rv.Len(); i++ { e.Encode(rv.Index(i).Interface()) }`
encodeItems(es, items, i, ord) ==
    LET next(r) == IF r.err # NoErr THEN Ret(r.es, "msgpack: failed to write array payload")
                   ELSE encodeItems(r.es, items, i + 1, ord)
    IN  IF i > Len(items) THEN Ret(es, NoErr) ELSE next(Encode(es, items[i], ord))

EncodeArray(es, v, ord) ==
    LET items(h) == IF h.err # NoErr THEN h ELSE encodeItems(h.es, v.v, 1, ord)
    IN  IF Kind(v.t) # "slice" THEN Ret(es, "msgpack: argument must be an array or a slice")
        ELSE items(EncodeArrayHeader(es, Len(v.v)))

\* the loop over the keys of EncodeMap's default path
encodePairs(es, m, keys, ord) ==
    LET next(r) == IF r.err # NoErr THEN Ret(r.es, "failed to encode map value")
                   ELSE encodePairs(r.es, m, Tail(keys), ord)
        value(k) == IF k.err # NoErr THEN Ret(k.es, "failed to encode map key")
                    ELSE next(Encode(k.es, m[keys[1]], ord))
    IN  IF keys = <<>> THEN Ret(es, NoErr) ELSE value(EncodeString(es, keys[1]))

EncodeMap(es, v, ord) ==
    IF Kind(v.t) # "map" THEN Ret(es, "msgpack: argument to EncodeMap must be a map")
    ELSE IF KeyKind(v.t) # "string" THEN Ret(es, "msgpack: keys to maps must be strings")
    ELSE encodePairs(WriteMapHeader(es, Len(ord)), v.v, ord, <<>>)

\* MapBuilder.Encode: the header for the number of pairs, then each pair
mapbEncode(es, pairs, i) ==
    LET first(h) == IF h.err # NoErr \/ pairs = <<>> THEN h ELSE mapbEncode(h.es, pairs, 1)
        next(r) == IF r.err # NoErr \/ i = Len(pairs) THEN r ELSE mapbEncode(r.es, pairs, i + 1)
        value(k) == IF k.err # NoErr THEN k ELSE next(Encode(k.es, pairs[i][2], <<>>))
    IN  IF i = 0
        THEN first(Chk(WriteMapHeader(es, Len(pairs)), "msgpack: failed to write map header"))
        ELSE value(EncodeString(es, pairs[i][1]))

\* the pairs EncodeStruct adds to the MapBuilder, field by field
structPairs(v) ==
    LET keep(f, x) == /\ f.exported
                      /\ parseMsgpackTag(f).name # S1(45)
                      /\ ~(parseMsgpackTag(f).omitempty /\ x = ZeroOf(f.typ))
        pairs(fs) ==
            LET pick[i \in 0..Len(fs)] ==
                    IF i = 0 THEN <<>>
                    ELSE IF keep(fs[i], v.v[i])
                    THEN Append(pick[i - 1], <<parseMsgpackTag(fs[i]).name, v.v[i]>>)
                    ELSE pick[i - 1]
            IN  pick[Len(fs)]
    IN  pairs(StructFields(v.t))

EncodeStruct(es, v, ord) ==
    LET wrap(r) == IF r.err # NoErr THEN Ret(r.es, "msgpack: failed to write map payload") ELSE r
    IN  IF Kind(v.t) # "struct"
        THEN Ret(es, "msgpack: argument to EncodeStruct must be a struct")
        ELSE wrap(mapbEncode(es, structPairs(v), 0))

\* the INDIRECT loop and the switch on rv.Kind() that follows it; the type
\* switch on the static type is not taken again for the pointed-to value
INDIRECT(es, rv, ord) ==
    \* !rv.IsValid()
    IF rv.t \in {"nil", NilPtr.t} THEN EncodeNil(es)
    ELSE IF isExtType(es, rv.t) THEN EncodeExt(es, es.encReg[rv.t], rv.v)
    \* rv = rv.Elem()
    ELSE IF Kind(rv.t) = "ptr" THEN INDIRECT(es, rv.v, ord)
    ELSE CASE Kind(rv.t) = "slice" -> EncodeArray(es, rv, ord)
           [] Kind(rv.t) = "map" -> EncodeMap(es, rv, ord)
           [] Kind(rv.t) = "struct" -> EncodeStruct(es, rv, ord)
           [] OTHER -> Ret(es, "msgpack: encode unimplemented for type")

Encode(es, v, ord) ==
    CASE v.t = "string" -> EncodeString(es, v.v)
      [] v.t = "bytes" -> EncodeBytes(es, v.v)
      [] v.t = "bool" -> EncodeBool(es, v.v)
      [] v.t = "float32" -> EncodeFloat32(es, v.v)
      [] v.t = "float64" -> EncodeFloat64(es, v.v)
      [] v.t = "uint8" -> EncodeUint8(es, v.v)
      [] v.t = "uint16" -> EncodeUint16(es, v.v)
      [] v.t = "uint32" -> EncodeUint32(es, v.v)
      [] v.t = "uint64" -> EncodeUint64(es, v.v)
      [] v.t = "int8" -> EncodeInt8(es, v.v)
      [] v.t = "int16" -> EncodeInt16(es, v.v)
      [] v.t = "int32" -> EncodeInt32(es, v.v)
      [] v.t = "int64" -> EncodeInt64(es, v.v)
      [] OTHER -> INDIRECT(es, v, ord)

\* ------------------------------------------------------------------------
\* The Reader of the decoder.  A decoder state ds holds
\*   r       the bytes of the stream from the cursor on,
\*   pool    the scratch-buffer pool,
\*   decReg  extDecodeRegistry: extension type code -> host type.
\* A read of k bytes fails on a stream that holds fewer, having consumed them.
\* ------------------------------------------------------------------------
readN(ds, k) ==
    LET read(have) ==
            [ok |-> SzLeq(Sz(k), have),
             b |-> [i \in 1..k |-> IF SzLeq(Sz(i), have) THEN ByteAt(ds.r, i) ELSE 0],
             ds |-> [ds EXCEPT !.r = Drop(@, Sz(k))]]
    IN  read(WLen(ds.r))

ReadByte(ds) ==
    LET byte(x) == [ok |-> x.ok, n |-> x.b[1], ds |-> x.ds] IN byte(readN(ds, 1))

ReadUint8(ds) ==
    LET byte(x) == [ok |-> x.ok, n |-> x.b[1], ds |-> x.ds] IN byte(readN(ds, 1))

ReadUint16(ds) ==
    LET word(x) == [ok |-> x.ok, n |-> x.b[1] * 256 + x.b[2], ds |-> x.ds]
    IN  word(readN(ds, 2))

ReadUint32(ds) ==
    LET word(x) ==
            [ok |-> x.ok, n |-> <<x.b[1] * 256 + x.b[2], x.b[3] * 256 + x.b[4]>>, ds |-> x.ds]
    IN  word(readN(ds, 4))

ReadUint64(ds) ==
    LET word(x) ==
            [ok |-> x.ok,
             n |-> <<x.b[1] * 256 + x.b[2], x.b[3] * 256 + x.b[4],
                     x.b[5] * 256 + x.b[6], x.b[7] * 256 + x.b[8]>>,
             ds |-> x.ds]
    IN  word(readN(ds, 8))

\* io.CopyN(buf, r, l): the bytes copied (fewer than l at the end of the stream)
CopyN(ds, l) ==
    [ok |-> SzLeq(l, WLen(ds.r)), data |-> Take(ds.r, l), ds |-> [ds EXCEPT !.r = Drop(@, l)]]

\* ------------------------------------------------------------------------
\* Leaf decoders: each returns the reflect.Value decoded (zeroval for none),
\* the error and the decoder state it leaves.
\* ------------------------------------------------------------------------
zeroval == V("invalid", 0)

D(val, err, ds) == [val |-> val, err |-> err, ds |-> ds]

\* the decoders table, with the fix families init() adds
decoders ==
    [c \in {Nil, True, False, Float, Double, Uint8, Uint16, Uint32, Uint64,
            Int8, Int16, Int32, Int64, Ext8, FixExt8, Str8, Str16, Str32,
            Bin8, Bin16, Bin32, Array16, Array32, Map16, Map32}
           \cup (FixStr0..(FixStr0 + 31))
           \cup (FixArray0..(FixArray0 + 15))
           \cup (FixMap0..(FixMap0 + 15)) |->
        CASE c = Nil -> "nilDecoder"
          [] c \in {True, False} -> "boolDecoder"
          [] c \in {Float, Double} -> "floatDecoder"
          [] c \in {Uint8, Uint16, Uint32, Uint64} -> "uintDecoder"
          [] c \in {Int8, Int16, Int32, Int64} -> "intDecoder"
          [] c \in {Ext8, FixExt8} -> "extDecoder"
          [] c \in {Str8, Str16, Str32, Bin8, Bin16, Bin32} -> "strDecoder"
          [] c \in FixStr0..(FixStr0 + 31) -> "fixstrDecoder"
          [] c \in {Array16, Array32} \cup (FixArray0..(FixArray0 + 15)) -> "arrayDecoder"
          [] OTHER -> "mapDecoder"]

lookupDecoder(code) ==
    IF code \in DOMAIN decoders THEN [dec |-> decoders[code], err |-> NoErr]
    ELSE [dec |-> "none", err |-> "msgpack: decoder not found"]

nilDecoder(ds) == D(zeroval, NoErr, ds)

boolDecoder(code, ds) == D(V("bool", code = True), NoErr, ds)

floatDecoder(code, ds) ==
    LET done(x, v, msg) == IF ~x.ok THEN D(zeroval, msg, x.ds) ELSE D(v, NoErr, x.ds)
        f32(x) == done(x, V("float32", Float32frombits(x.n)),
                       "msgpack: failed to read uint32 for Float")
        f64(x) == done(x, V("float64", Float64frombits(x.n)),
                       "msgpack: failed to read uint64 for Float")
    IN  CASE code = Float -> f32(ReadUint32(ds))
          [] code = Double -> f64(ReadUint64(ds))
          [] OTHER -> D(zeroval, "msgpack: unknown float code", ds)

uintDecoder(code, ds) ==
    LET done(x, t, msg) == IF ~x.ok THEN D(zeroval, msg, x.ds) ELSE D(V(t, x.n), NoErr, x.ds)
    IN  CASE code = Uint8 -> done(ReadUint8(ds), "uint8", "msgpack: failed to decode uint8")
          [] code = Uint16 -> done(ReadUint16(ds), "uint16", "msgpack: failed to decode uint16")
          [] code = Uint32 -> done(ReadUint32(ds), "uint32", "msgpack: failed to decode uint32")
          [] code = Uint64 -> done(ReadUint64(ds), "uint64", "msgpack: failed to decode uint64")
          [] OTHER -> D(zeroval, "msgpack: invalid code for uint", ds)

intDecoder(code, ds) ==
    LET done(x, v, msg) == IF ~x.ok THEN D(zeroval, msg, x.ds) ELSE D(v, NoErr, x.ds)
        i8(x) == done(x, V("int8", ToInt8(x.n)), "msgpack: failed to decode int8")
        i16(x) == done(x, V("int16", ToInt16(x.n)), "msgpack: failed to decode int16")
        i32(x) == done(x, V("int32", ToInt32(x.n)), "msgpack: failed to decode uint32")
        i64(x) == done(x, V("int64", ToInt64(x.n)), "msgpack: failed to decode int64")
    IN  CASE code = Int8 -> i8(ReadUint8(ds))
          [] code = Int16 -> i16(ReadUint16(ds))
          [] code = Int32 -> i32(ReadUint32(ds))
          [] code = Int64 -> i64(ReadUint64(ds))
          [] OTHER -> D(zeroval, "msgpack: invalid code for int", ds)

\* the length prefix strDecoder reads: [ok, l, ds]
strLength(code, ds) ==
    LET short(x) == [ok |-> x.ok, l |-> Sz(x.n), ds |-> x.ds]
        long(x) == [ok |-> x.ok, l |-> x.n, ds |-> x.ds]
    IN  CASE code \in {Str8, Bin8} -> short(ReadUint8(ds))
          [] code \in {Str16, Bin16} -> short(ReadUint16(ds))
          [] code \in {Str32, Bin32} -> long(ReadUint32(ds))
          [] OTHER -> [ok |-> TRUE, l |-> Zero, ds |-> ds]

strDecoder(code, ds) ==
    LET \* the deferred bufferpool.Release(buf)
        after(g, c) == [c.ds EXCEPT !.pool = PoolRelease(g.pool)]
        copied(g, c) ==
            IF ~c.ok THEN D(zeroval, "msgpack: failed to read string", after(g, c))
            ELSE D(V("string", Cat(g.buf, c.data)), NoErr, after(g, c))
        got(h, g) ==
            IF ~h.ok
            THEN D(zeroval, "msgpack: failed to read length for string/byte slice", h.ds)
            ELSE IF code \in {Bin8, Bin16, Bin32}
            \* the buffer as it came from the pool: nothing is copied into it, and it
            \* is not released
            THEN D(V("bytes", g.buf), NoErr, [h.ds EXCEPT !.pool = g.pool])
            ELSE copied(g, CopyN(h.ds, h.l))
        length(h) == got(h, PoolGet(h.ds.pool))
    IN  length(strLength(code, ds))

fixstrDecoder(code, ds) ==
    LET \* bufferpool.Release(buf) comes first: buf is emptied and is in the pool
        \* while io.CopyN fills it
        after(g, c) == [c.ds EXCEPT !.pool = <<c.data>> \o g.pool]
        copied(g, c) ==
            IF ~c.ok THEN D(zeroval, "msgpack: failed to decode FixStr (body)", after(g, c))
            ELSE D(V("string", c.data), NoErr, after(g, c))
    IN  copied(PoolGet(ds.pool), CopyN(ds, Sz(code - FixStr0)))

\* rv.DecodeMsgpackExt(reader): the user's decoder reads the bounded reader to
\* its end and keeps what it read
DecodeMsgpackExt(ds, limit) == CopyN(ds, SzMin(limit, WLen(ds.r)))

extDecoder(code, ds) ==
    LET size == IF code = Ext8 THEN 1 ELSE 0
        short(x, msg) == [err |-> IF x.ok THEN NoErr ELSE msg, l |-> Sz(x.n), ds |-> x.ds]
        long(x, msg) == [err |-> IF x.ok THEN NoErr ELSE msg, l |-> x.n, ds |-> x.ds]
        user(b, u) ==
            D(V("*T", V(ds.decReg[b.n], [payload |-> u.data, fail |-> FALSE])), NoErr, u.ds)
        typed(h, b) ==
            IF ~b.ok THEN D(zeroval, "msgpack: failed to read type byte", b.ds)
            \* errors.Wrapf(err, ...) of the nil err of ReadByte is nil
            ELSE IF b.n \notin DOMAIN ds.decReg THEN D(zeroval, NoErr, b.ds)
            ELSE user(b, DecodeMsgpackExt(b.ds, h.l))
        payload(h) ==
            IF h.err # NoErr THEN D(zeroval, h.err, h.ds) ELSE typed(h, ReadByte(h.ds))
    IN  payload(IF size > 0
                THEN CASE code = Ext8 ->
                             short(ReadUint8(ds), "msgpack: failed to read size for ext8 value")
                       [] code = Ext16 ->
                             short(ReadUint16(ds), "msgpack: failed to read size for ext16 value")
                       [] code = Ext32 ->
                             long(ReadUint32(ds), "msgpack: failed to read size for ext32 value")
                       [] OTHER -> [err |-> "msgpack: unsupported ext", l |-> Zero, ds |-> ds]
                ELSE [err |-> NoErr, l |-> IF code = FixExt8 THEN Sz(8) ELSE Zero, ds |-> ds])

\* ------------------------------------------------------------------------
\* reflect's conversions, for the struct binder.
\* ------------------------------------------------------------------------
IntegerTypes == {"uint8", "uint16", "uint32", "uint64", "int8", "int16", "int32", "int64"}

NumericTypes == IntegerTypes \cup {"float32", "float64"}

\* reflect.Type.ConvertibleTo
ConvertibleTo(from, to) ==
    \/ from = to
    \/ from \in NumericTypes /\ to \in NumericTypes
    \/ from \in IntegerTypes /\ to = "string"
    \/ from = "bytes" /\ to = "string"
    \/ from = "string" /\ to = "bytes"

\* the low 16 bits of an integer value
low16(x) ==
    CASE x.t \in {"uint8", "uint16", "int8", "int16", "int32"} -> x.v % Base
      [] x.t = "uint32" -> x.v[2]
      [] OTHER -> x.v[4]

\* whether an integer value is at least 0 and below 65536
small(x) ==
    CASE x.t \in {"uint8", "uint16", "int8", "int16", "int32"} -> x.v >= 0 /\ x.v < Base
      [] x.t = "uint32" -> x.v[1] = 0
      [] OTHER -> x.v[1] = 0 /\ x.v[2] = 0 /\ x.v[3] = 0

\* string(rune(x)) for a code point below 65536; U+FFFD otherwise and for surrogates
runeString(x) ==
    LET c == low16(x)
    IN  CASE small(x) /\ c < 128 -> Bytes(<<c>>)
          [] small(x) /\ c >= 128 /\ c < 2048 -> Bytes(<<192 + (c \div 64), 128 + (c % 64)>>)
          [] small(x) /\ c >= 2048 /\ (c < 55296 \/ c > 57343) ->
                Bytes(<<224 + (c \div 4096), 128 + ((c \div 64) % 64), 128 + (c % 64)>>)
          [] OTHER -> Bytes(<<239, 191, 189>>)

\* the integer part of a float below 256, "impl" where Go leaves the result to
\* the implementation (negative, NaN or out of range)
floatToUint8(x) ==
    LET top == x.v.bits[1]
        sign == top \div 32768
        e == IF x.t = "float32" THEN ((top \div 128) % 256) - 127 ELSE ((top \div 16) % 2048) - 1023
        m8 == IF x.t = "float32" THEN ((top % 128) * 2) + (x.v.bits[2] \div 32768)
              ELSE ((top % 16) * 16) + (x.v.bits[2] \div 4096)
        pow2[k \in 0..8] == IF k = 0 THEN 1 ELSE 2 * pow2[k - 1]
    IN  CASE e < 0 -> 0
          [] sign = 0 /\ e >= 0 /\ e <= 7 -> (256 + m8) \div pow2[8 - e]
          [] OTHER -> "impl"

\* reflect.Value.Convert, to the declared types of the records' fields
Convert(x, to) ==
    CASE x.t = to -> x
      [] x.t # to /\ to = "uint8" /\ x.t \in IntegerTypes -> V(to, low16(x) % 256)
      [] x.t # to /\ to = "uint8" /\ x.t \notin IntegerTypes -> V(to, floatToUint8(x))
      [] x.t # to /\ to = "string" /\ x.t = "bytes" -> V(to, x.v)
      [] x.t # to /\ to = "bytes" /\ x.t = "string" -> V(to, x.v)
      [] OTHER -> V(to, runeString(x))

\* ------------------------------------------------------------------------
\* The Decoder facade and the composite decoders.  A sink is named by the
\* type it points to; a value that is no pointer ("nonptr"), a nil pointer
\* ("nilptr") and the nil interface ("untyped nil") are the sinks Decode
\* refuses.
\* ------------------------------------------------------------------------
Panic == "panic"

InvalidDecodeError == "msgpack: invalid decode target"

\* rv.Kind() != reflect.Ptr || rv.IsNil()
InvalidSinks == {"nonptr", "nilptr", "untyped nil"}

\* bufio.Reader.UnreadByte after a ReadByte that returned b: the byte is
\* unread again
UnreadByte(ds, b) == [ds EXCEPT !.r = Cat(Bytes(<<b>>), @)]

\* PeekCode without its UnreadByte
PeekCodeNoUnread(ds) ==
    LET read(x) ==
            IF ~x.ok THEN [code |-> 0, err |-> "msgpack: failed to peek code", ds |-> x.ds]
            ELSE [code |-> x.n, err |-> NoErr, ds |-> x.ds]
    IN  read(ReadByte(ds))

\* PeekCode: [code, err, ds], ds the decoder state after the call
PeekCode(ds) ==
    LET unread(x) ==
            IF ~x.ok THEN [code |-> 0, err |-> "msgpack: failed to peek code", ds |-> x.ds]
            ELSE [code |-> x.n, err |-> NoErr, ds |-> UnreadByte(x.ds, x.n)]
    IN  unread(ReadByte(ds))

\* the map from wire name to field index that structDecoder builds
name2field(target) ==
    LET index(fs) ==
            LET bound == {i \in 1..Len(fs) :
                            fs[i].exported /\ parseMsgpackTag(fs[i]).name # S1(45)}
            IN  [nm \in {parseMsgpackTag(fs[i]).name : i \in bound} |->
                    CHOOSE i \in bound :
                        /\ parseMsgpackTag(fs[i]).name = nm
                        /\ \A j \in bound : parseMsgpackTag(fs[j]).name = nm => j <= i]
    IN  index(StructFields(target))

\* the size a FixArray/Array16/Array32 or FixMap/Map16/Map32 header gives
compositeSize(code, fix0, c16, c32, ds) ==
    LET short(x) == [err |-> IF x.ok THEN NoErr ELSE "msgpack: failed to read size",
                     size |-> Sz(x.n), ds |-> x.ds]
        long(x) == [err |-> IF x.ok THEN NoErr ELSE "msgpack: failed to read size",
                    size |-> x.n, ds |-> x.ds]
    IN  CASE code >= fix0 /\ code <= fix0 + 15 ->
                [err |-> NoErr, size |-> Sz(code - fix0), ds |-> ds]
          [] code = c16 -> short(ReadUint16(ds))
          [] code = c32 -> long(ReadUint32(ds))
          [] OTHER -> [err |-> "msgpack: unsupported type", size |-> Zero, ds |-> ds]

RECURSIVE Decode(_, _, _)
RECURSIVE arrayLoop(_, _, _)
RECURSIVE mapLoop(_, _, _, _, _)
RECURSIVE structLoop(_, _, _, _, _, _)

arrayLoop(ds, n, l) ==
    LET next(r) ==
            IF r.err = Panic THEN D(zeroval, Panic, r.ds)
            ELSE IF r.err # NoErr
            THEN D(zeroval, "msgpack: failed to decode array at index", r.ds)
            ELSE arrayLoop(r.ds, SzSub(n, One), Append(l, r.sink))
    IN  IF n = Zero THEN D(V("[]interface{}", l), NoErr, ds)
        ELSE next(Decode(ds, "interface{}", V("nil", 0)))

arrayDecoder(code, ds) ==
    LET items(h) ==
            IF h.err # NoErr THEN D(zeroval, h.err, h.ds) ELSE arrayLoop(h.ds, h.size, <<>>)
    IN  items(compositeSize(code, FixArray0, Array16, Array32, ds))

mapLoop(ds, n, m, key, value) ==
    LET next(k, x) ==
            IF x.err = Panic THEN D(zeroval, Panic, x.ds)
            ELSE IF x.err # NoErr
            THEN D(zeroval, "msgpack: failed to decode fixmap value for key", x.ds)
            ELSE mapLoop(x.ds, SzSub(n, One),
                         [q \in DOMAIN m \cup {k.sink.v} |->
                             IF q = k.sink.v THEN x.sink ELSE m[q]],
                         k.sink, x.sink)
        val(k) ==
            IF k.err = Panic THEN D(zeroval, Panic, k.ds)
            ELSE IF k.err # NoErr
            THEN D(zeroval, "msgpack: failed to decode fixmap key at index", k.ds)
            ELSE next(k, Decode(k.ds, "interface{}", value))
    IN  IF n = Zero THEN D(V("map[string]interface{}", m), NoErr, ds)
        ELSE val(Decode(ds, "string", key))

mapDecoder(code, ds) ==
    LET pairs(h) ==
            IF h.err # NoErr THEN D(zeroval, h.err, h.ds)
            ELSE mapLoop(h.ds, h.size, <<>>, V("string", <<>>), V("nil", 0))
    IN  pairs(compositeSize(code, FixMap0, Map16, Map32, ds))

structLoop(ds, n, target, s, key, value) ==
    LET \* a field that is a record: dec.Decode(f.Addr().Interface())
        record(k, i, x) ==
            IF x.err = Panic THEN D(zeroval, Panic, x.ds)
            ELSE IF x.err # NoErr
            THEN D(zeroval, "msgpack: failed to decode struct value for key", x.ds)
            ELSE structLoop(x.ds, SzSub(n, One), target, [s EXCEPT ![i] = x.sink], k.sink, value)
        \* a field that is a pointer to a record: dec.Decode(f.Interface())
        pointer(k, i, x) ==
            IF x.err = Panic THEN D(zeroval, Panic, x.ds)
            ELSE IF x.err # NoErr
            THEN D(zeroval, "msgpack: failed to decode struct value for key", x.ds)
            ELSE structLoop(x.ds, SzSub(n, One), target, [s EXCEPT ![i].v = x.sink],
                            k.sink, value)
        other(k, i, ft, x) ==
            IF x.err = Panic THEN D(zeroval, Panic, x.ds)
            ELSE IF x.err # NoErr
            THEN D(zeroval, "msgpack: failed to decode struct value for key", x.ds)
            \* reflect.ValueOf(nil).Type() panics
            ELSE IF x.sink.t = "nil" THEN D(zeroval, Panic, x.ds)
            ELSE IF ~ConvertibleTo(x.sink.t, ft)
            THEN D(zeroval, "msgpack: cannot convert", x.ds)
            ELSE structLoop(x.ds, SzSub(n, One), target,
                            [s EXCEPT ![i] = Convert(x.sink, ft)], k.sink, x.sink)
        field(k, i, ft) ==
            IF Kind(ft) = "struct" THEN record(k, i, Decode(k.ds, ft, s[i]))
            \* the field holds what reflect.New left in it, a nil pointer,
            \* unless an earlier key has set it
            ELSE IF Kind(ft) = "ptr" /\ Kind(PtrElem(ft)) = "struct"
            THEN pointer(k, i, Decode(k.ds, IF s[i].v = NilPtr THEN "nilptr" ELSE PtrElem(ft),
                                      s[i].v))
            ELSE other(k, i, ft, Decode(k.ds, "interface{}", value))
        named(k, n2f) ==
            \* f, ok := name2field[key]; if !ok { continue }
            IF k.sink.v \notin DOMAIN n2f
            THEN structLoop(k.ds, SzSub(n, One), target, s, k.sink, value)
            ELSE field(k, n2f[k.sink.v], StructFields(target)[n2f[k.sink.v]].typ)
        keyed(k) ==
            IF k.err = Panic THEN D(zeroval, Panic, k.ds)
            ELSE IF k.err # NoErr
            THEN D(zeroval, "msgpack: failed to decode struct key at index", k.ds)
            ELSE named(k, name2field(target))
    IN  IF n = Zero THEN D(V("*T", V(target, s)), NoErr, ds)
        ELSE keyed(Decode(ds, "string", key))

structDecoder(code, target, ds) ==
    LET fields(h) ==
            IF h.err # NoErr THEN D(zeroval, h.err, h.ds)
            ELSE structLoop(h.ds, h.size, target, ZeroOf(target).v,
                            V("string", <<>>), V("nil", 0))
    IN  fields(compositeSize(code, FixMap0, Map16, Map32, ds))

\* the leaf decoder Decode dispatches to
dispatch(dec, code, ds) ==
    CASE dec = "nilDecoder" -> nilDecoder(ds)
      [] dec = "boolDecoder" -> boolDecoder(code, ds)
      [] dec = "floatDecoder" -> floatDecoder(code, ds)
      [] dec = "uintDecoder" -> uintDecoder(code, ds)
      [] dec = "intDecoder" -> intDecoder(code, ds)
      [] dec = "extDecoder" -> extDecoder(code, ds)
      [] dec = "strDecoder" -> strDecoder(code, ds)
      [] dec = "fixstrDecoder" -> fixstrDecoder(code, ds)
      [] dec = "arrayDecoder" -> arrayDecoder(code, ds)
      [] OTHER -> mapDecoder(code, ds)

\* the refusal of a sink after the code of the frame has been read
invalidTargetAfterRead(ds, sinkT, old) ==
    [err |-> InvalidDecodeError, sink |-> old, ds |-> ReadByte(ds).ds,
     typ |-> IF sinkT = "untyped nil" THEN "" ELSE sinkT]

\* the refusal of a sink that is no pointer or a nil pointer: the error holds
\* the type of the sink when the sink has one (rv.IsValid())
invalidTarget(ds, sinkT, old) ==
    [err |-> InvalidDecodeError, sink |-> old, ds |-> ds,
     typ |-> IF sinkT = "untyped nil" THEN "" ELSE sinkT]

\* Decode(v) for a sink v pointing to a value of type sinkT that holds old:
\* [err, sink, ds, typ], sink the value the sink holds afterwards, typ the
\* Type of an InvalidDecodeError
Decode(ds, sinkT, old) ==
    LET R(err, sink, d) == [err |-> err, sink |-> sink, ds |-> d, typ |-> ""]
        assign(x) ==
            IF x.err = Panic THEN R(Panic, old, x.ds)
            ELSE IF x.err # NoErr THEN R("msgpack: failed to decode value", old, x.ds)
            ELSE IF x.val = zeroval THEN R(NoErr, ZeroOf(sinkT), x.ds)
            ELSE IF Kind(x.val.t) = "ptr" /\ x.val.v.t = sinkT THEN R(NoErr, x.val.v, x.ds)
            ELSE IF sinkT = "interface{}" \/ x.val.t = sinkT THEN R(NoErr, x.val, x.ds)
            \* reflect.Value.Set: the value is not assignable to the sink's type
            ELSE R(Panic, old, x.ds)
        \* d.r.ReadByte() throws the code away (d1 is the state after it); a map
        \* frame for a record sink goes to the struct decoder, any other frame to
        \* the decoder of its code
        decode(code, d1, lk, bind) ==
            IF ~bind /\ lk.err # NoErr
            THEN R("msgpack: failed to lookup decoder for code", old, d1)
            ELSE assign(IF bind THEN structDecoder(code, sinkT, d1)
                        ELSE dispatch(lk.dec, code, d1))
        peeked(p) ==
            IF p.err # NoErr THEN R("msgpack: failed to peek code", old, p.ds)
            ELSE decode(p.code, ReadByte(p.ds).ds, lookupDecoder(p.code),
                        IsMapFamily(p.code) /\ Kind(sinkT) = "struct")
    IN  IF sinkT \in InvalidSinks THEN invalidTarget(ds, sinkT, old)
        ELSE peeked(PeekCode(ds))

\* ------------------------------------------------------------------------
\* The program: one Encoder and one Decoder on the two ends of a byte
\* stream, the process-wide scratch pool and the extension registries.
\* ------------------------------------------------------------------------
VARIABLES
    stream,   \* the bytes written to the stream and not yet read by the decoder
    pool,     \* the scratch-buffer pool
    encReg,   \* extEncodeRegistry: host type -> extension type code
    decReg,   \* extDecodeRegistry: extension type code -> host type
    frames,   \* history: the whole frames written and not yet passed by a
              \* Decode, each with the value it encodes
    op        \* the latest call and what it returned

vars == <<stream, pool, encReg, decReg, frames, op>>

\* bounds of the model: the frames in flight, the latest write of an Encode
\* call that the stream may refuse, and the PeekCode calls in a row
MaxPending == 1

MaxFailAt == 2

MaxPeeks == 2

\* ---- the values the model encodes --------------------------------------
Str(b, n) == Run(b, Sz(n))

Big(b) == Run(b, <<1, 0>>)

Person(nm, age) ==
    V("Person", <<V("string", nm), V("uint8", age), V("string", <<>>), V("string", <<>>)>>)

Stamp(payload, fail) == V("Stamp", [payload |-> payload, fail |-> fail])

\* Owner{Pet: pet}
Owner(pet) == V("Owner", <<V("*Person", pet)>>)

MapSI(k1, v1, k2, v2) ==
    V("map[string]interface{}", [q \in {k1, k2} |-> IF q = k1 THEN v1 ELSE v2])

Scalars ==
    << V("bool", TRUE), V("bool", FALSE),
       V("uint8", 0), V("uint8", 255), V("uint16", 256), V("uint16", 65535),
       V("uint32", <<65535, 65535>>), V("uint64", <<65535, 65535, 65535, 65535>>),
       V("int8", -128), V("int8", 127), V("int16", -32768), V("int16", 32767),
       V("int32", -2147483647 - 1), V("int32", 2147483647),
       V("int64", <<-32768, 0, 0, 0>>), V("int64", <<32767, 65535, 65535, 65535>>),
       V("float32", [bits |-> <<32704, 0>>]), V("float32", [bits |-> <<32768, 0>>]),
       V("float64", [bits |-> <<32752, 0, 0, 1>>]), V("float64", [bits |-> <<16368, 0, 0, 0>>]) >>

Strings ==
    << V("string", <<>>), V("string", Str(97, 1)), V("string", Str(97, 31)),
       V("string", Str(97, 32)), V("string", Str(97, 256)), V("string", Big(97)) >>

\* payloads of more than a few bytes are runs of 0xdb, so that a Decode that
\* starts inside one reads it to its end
ByteSlices ==
    << V("bytes", <<>>), V("bytes", Str(98, 1)), V("bytes", Bytes(<<1, 2, 3>>)),
       V("bytes", Str(219, 255)), V("bytes", Str(219, 256)), V("bytes", Big(219)) >>

Exts ==
    << Stamp(Str(7, 1), FALSE), Stamp(Str(7, 2), FALSE), Stamp(Str(7, 3), FALSE),
       Stamp(Str(7, 4), FALSE), Stamp(Str(7, 8), FALSE), Stamp(Str(219, 16), FALSE),
       Stamp(Str(219, 257), FALSE), Stamp(Big(219), FALSE), Stamp(<<>>, FALSE),
       Stamp(Str(7, 2), TRUE) >>

Composites ==
    << V("nil", 0),
       V("[]interface{}", <<V("uint8", 1), V("string", Str(97, 1))>>),
       V("[]string", <<V("string", Str(97, 1))>>),
       MapSI(S1(120), V("string", S1(121)), S1(110), V("string", S1(65))),
       MapSI(S1(110), V("string", S1(65)), S1(97), V("uint8", 30)),
       V("map[uint8]bool", [q \in {1} |-> TRUE]),
       Person(S1(65), 30), Person(S1(65), 0),
       V("*T", Person(S1(65), 30)), V("*T", NilPtr),
       Owner(Person(S1(65), 30)), Owner(NilPtr),
       \* map[string]interface{}{"n": nil} and map[string]interface{}{"a": true}
       MapSI(S1(110), V("nil", 0), S1(110), V("nil", 0)),
       MapSI(S1(97), V("bool", TRUE), S1(97), V("bool", TRUE)),
       \* the array [3]uint8{1, 2, 3}
       V("[3]uint8", <<V("uint8", 1), V("uint8", 2), V("uint8", 3)>>) >>

Values == Scalars \o Strings \o ByteSlices \o Exts \o Composites

\* frames of another producer: positive and negative fixints, and extension
\* frames whose type code (9) is in no registry
Foreign ==
    << Bytes(<<0>>), Bytes(<<30>>), Bytes(<<127>>), Bytes(<<224>>), Bytes(<<255>>),
       Bytes(<<Ext8, 1, 9, 7>>), Bytes(<<FixExt8, 9>>) \o Str(7, 8) >>

SinkTypes ==
    {"interface{}", "bool", "uint8", "uint16", "uint32", "uint64", "int8", "int16",
     "int32", "int64", "float32", "float64", "string", "bytes", "Person", "Owner", "Stamp",
     "nonptr", "nilptr", "untyped nil"}

\* the orders in which the runtime may yield the keys of a map value
KeyOrders(v) ==
    IF Kind(v.t) = "map"
    THEN {o \in [1..Cardinality(DOMAIN v.v) -> DOMAIN v.v] :
            \A i, j \in DOMAIN o : i # j => o[i] # o[j]}
    ELSE {<<>>}

RECURSIVE Flat(_)
\* the bytes of a sequence of frames
Flat(fs) == IF fs = <<>> THEN <<>> ELSE Cat(fs[1].bytes, Flat(Tail(fs)))

NoFrame == [v |-> V("none", 0), bytes |-> <<>>]

\* op: the call (name, arg), the error it returned (err), the bytes an Encode
\* wrote or the value a Decode left in its sink (out), whether a write of the
\* call failed (wfailed), the frame at the cursor when a Decode was called
\* (src), whether the unread stream was then a sequence of whole frames
\* (aligned) and how many (depth), and the number of PeekCode calls in a row
\* that ends with the call or that the call follows (peeks), and the Type of
\* the InvalidDecodeError a Decode returned (typ)
NoOp ==
    [name |-> "none", arg |-> V("none", 0), err |-> NoErr, out |-> V("none", 0),
     src |-> NoFrame, aligned |-> TRUE, depth |-> 0, wfailed |-> FALSE, peeks |-> 0,
     typ |-> ""]

\* the number of PeekCode calls made since the last call of another kind
Peeks == IF op.name = "PeekCode" THEN op.peeks ELSE 0

\* what a sink holds that no Decode has assigned to
Untouched == V("untouched", 0)

\* The registries are filled when the program starts: Stamp is extension 1.
Init ==
    /\ stream = <<>>
    /\ pool = <<>>
    /\ encReg = [t \in {"Stamp"} |-> 1]
    /\ decReg = [c \in {1} |-> "Stamp"]
    /\ frames = <<>>
    /\ op = NoOp

\* a panic ends the program
Running == op.err # Panic

\* a producer appends to a stream whose unread part is whole frames, fewer
\* than limit of them
MayWrite(limit) == Running /\ stream = Flat(frames) /\ Len(frames) < limit

\* e.Encode(v), the stream refusing the failAt-th write of the call and every
\* later one (0: no write fails), the map keys coming in the order ord
EncodeOp(v, failAt, ord, limit) ==
    LET returned(r) ==
            /\ stream' = Cat(stream, r.es.dst)
            /\ pool' = r.es.pool
            /\ frames' = IF r.es.dst = <<>> \/ r.es.failed THEN frames
                         ELSE Append(frames, [v |-> v, bytes |-> r.es.dst])
            /\ op' = [NoOp EXCEPT !.name = "Encode", !.arg = v, !.err = r.err,
                                  !.out = V("bytes", r.es.dst), !.wfailed = r.es.failed]
    IN  /\ MayWrite(limit)
        /\ returned(Encode([dst |-> <<>>, calls |-> 0, failAt |-> failAt, ok |-> TRUE,
                            failed |-> FALSE, pool |-> pool, encReg |-> encReg], v, ord))
        /\ UNCHANGED <<encReg, decReg>>

EncodeStep(U, K, limit) ==
    \E i \in 1..Len(U), k \in 0..K : \E ord \in KeyOrders(U[i]) : EncodeOp(U[i], k, ord, limit)

\* another producer appends a well-formed frame to the stream
Feed(f, limit) ==
    /\ MayWrite(limit)
    /\ stream' = Cat(stream, f)
    /\ frames' = Append(frames, [v |-> V("foreign", 0), bytes |-> f])
    /\ op' = [NoOp EXCEPT !.name = "Feed", !.out = V("bytes", f)]
    /\ UNCHANGED <<pool, encReg, decReg>>

FeedStep(F, limit) == \E i \in 1..Len(F) : Feed(F[i], limit)

\* d.Decode(&x) for a variable x of type sinkT
DecodeOp(sinkT) ==
    LET returned(r) ==
            /\ stream' = r.ds.r
            /\ pool' = r.ds.pool
            /\ frames' = IF frames = <<>> \/ sinkT \in InvalidSinks THEN frames
                         ELSE Tail(frames)
            /\ op' = [NoOp EXCEPT !.name = "Decode", !.arg = V("sink", sinkT), !.err = r.err,
                                  !.out = r.sink,
                                  !.src = IF frames = <<>> THEN NoFrame ELSE frames[1],
                                  !.aligned = (stream = Flat(frames)),
                                  !.depth = Len(frames), !.peeks = Peeks,
                                  !.typ = r.typ]
    IN  /\ Running
        /\ returned(Decode([r |-> stream, pool |-> pool, decReg |-> decReg], sinkT, Untouched))
        /\ UNCHANGED <<encReg, decReg>>

DecodeStep(S) == \E t \in S : DecodeOp(t)

\* d.PeekCode(), at most MaxPeeks times in a row
PeekCodeOp ==
    LET returned(p) ==
            /\ stream' = p.ds.r
            /\ pool' = p.ds.pool
            /\ op' = [NoOp EXCEPT !.name = "PeekCode", !.err = p.err,
                                  !.out = V("code", p.code), !.peeks = Peeks + 1]
    IN  /\ Running
        /\ Peeks < MaxPeeks
        /\ returned(PeekCode([r |-> stream, pool |-> pool, decReg |-> decReg]))
        /\ UNCHANGED <<encReg, decReg, frames>>

\* the runtime's collector empties the pool
CollectPool ==
    /\ Running
    /\ pool # <<>>
    /\ pool' = <<>>
    /\ op' = [NoOp EXCEPT !.name = "CollectPool"]
    /\ UNCHANGED <<stream, encReg, decReg, frames>>

Next ==
    \/ EncodeStep(Values, MaxFailAt, MaxPending)
    \/ FeedStep(Foreign, MaxPending)
    \/ DecodeStep(SinkTypes)
    \/ PeekCodeOp
    \/ CollectPool

Spec == Init /\ [][Next]_vars

\* ------------------------------------------------------------------------
\* A second program: one Encoder writing strings of every length class and
\* one Decoder reading them back.
\* ------------------------------------------------------------------------
\* the lengths on both sides of every boundary of EncodeString, 2^32 - 1 and 2^32
LadderStrings ==
    << V("string", <<>>), V("string", Str(97, 1)), V("string", Str(98, 1)),
       V("string", Bytes(<<97, 98>>)), V("string", Str(97, 30)), V("string", Str(97, 31)),
       V("string", Str(97, 32)), V("string", Str(97, 33)), V("string", Str(219, 255)),
       V("string", Str(219, 256)), V("string", Str(219, 257)), V("string", Str(219, 65535)),
       V("string", Big(219)), V("string", Run(219, <<1, 1>>)),
       V("string", Run(219, MaxUint32)), V("string", Run(219, <<MaxUint16 + 1, 0>>)) >>

NextString ==
    \/ EncodeStep(LadderStrings, MaxFailAt, MaxPending)
    \/ DecodeStep({"string", "interface{}"})
    \/ CollectPool

SpecString == Init /\ [][NextString]_vars

\* ------------------------------------------------------------------------
\* A third program: the Decoder at work on frames of every family, no write
\* failing, with PeekCode calls and refused sinks between its Decode calls.
\* ------------------------------------------------------------------------
\* a value of every frame family
FamilyValues ==
    << V("nil", 0), V("bool", TRUE), V("uint8", 255),
       V("string", Str(97, 1)), V("string", Str(97, 32)), V("bytes", Str(98, 1)),
       Stamp(Str(7, 8), FALSE),
       V("[]interface{}", <<V("uint8", 1), V("string", Str(97, 1))>>),
       MapSI(S1(110), V("string", S1(65)), S1(97), V("uint8", 30)) >>

\* a sink of every kind
FamilySinks ==
    {"interface{}", "bool", "uint8", "string", "bytes", "Person", "Stamp"} \cup InvalidSinks

NextDecoder ==
    \/ EncodeStep(FamilyValues, 0, MaxPending)
    \/ FeedStep(Foreign, MaxPending)
    \/ DecodeStep(FamilySinks)
    \/ PeekCodeOp
    \/ CollectPool

SpecDecoder == Init /\ [][NextDecoder]_vars

\* ------------------------------------------------------------------------
\* The claims.
\* ------------------------------------------------------------------------
\* the two bytes of a 16-bit number, the high one first
BE2(n) == <<n \div 256, n % 256>>

ScalarTypes ==
    {"bool", "uint8", "uint16", "uint32", "uint64", "int8", "int16", "int32", "int64",
     "float32", "float64", "string"}

\* the latest call was a Decode at the first byte of the only frame in the
\* stream, a frame Encode wrote (to an empty stream) for a value of a type in T
DecodedFrameOf(T) ==
    /\ op.name = "Decode"
    /\ op.aligned
    /\ op.depth = 1
    /\ op.src.v.t \in T

\* C1: Encode(v) of a bool, an unsigned or signed integer, a float or a
\* string, written to an empty stream, followed by Decode into a sink of v's
\* own type, succeeds and leaves the sink equal to v.
C1_RoundTripScalars ==
    (DecodedFrameOf(ScalarTypes) /\ op.arg.v = op.src.v.t)
        => (op.err = NoErr /\ op.out = op.src.v)

\* C2: EncodeBytes(b) followed by Decode into a byte-sequence sink yields
\* exactly the bytes of b.
C2_RoundTripBytes ==
    (DecodedFrameOf({"bytes"}) /\ op.arg.v = "bytes")
        => (op.err = NoErr /\ op.out = op.src.v)

\* C3: a Decode that starts at the first byte of a frame and returns
\* successfully leaves the cursor at the first byte after that frame.
C3_FramingLocality ==
    (op.name = "Decode" /\ op.aligned /\ op.depth > 0 /\ op.err = NoErr)
        => stream = Flat(frames)

\* the keys of the map m that name a bound field of the record type t
BoundKeys(m, t) == DOMAIN m \cap DOMAIN name2field(t)

\* C4: binding a map frame with a key that names no bound field of the record
\* succeeds, consumes the whole frame, and gives every field named by another
\* key that key's value.
C4_UnknownFieldTolerance ==
    (/\ DecodedFrameOf({"map[string]interface{}"})
     /\ op.arg.v = "Person"
     /\ BoundKeys(op.src.v.v, "Person") # DOMAIN op.src.v.v)
        => /\ op.err = NoErr
           /\ stream = Flat(frames)
           /\ \A k \in BoundKeys(op.src.v.v, "Person") :
                 LET i == name2field("Person")[k]
                 IN  op.out.v[i] = Convert(op.src.v.v[k], StructFields("Person")[i].typ)

\* a frame that is one fixint tag byte
IsFixint(f) ==
    /\ Len(f) = 1
    /\ f[1].n = One
    /\ f[1].b \in (0..127) \cup (224..255)

\* C5: Decode of a stream that begins with a fixint tag t succeeds, yields t
\* (t - 256 for a negative fixint) and consumes that one byte.
C5_FixintDecodes ==
    (/\ op.name = "Decode" /\ op.aligned /\ op.depth = 1
     /\ op.src.v.t = "foreign" /\ IsFixint(op.src.bytes)
     /\ op.arg.v = "interface{}")
        => /\ op.err = NoErr
           /\ stream = Flat(frames)
           /\ op.out.v = LET t == op.src.bytes[1].b IN IF t < 128 THEN t ELSE t - 256

\* C6: the frame EncodeExt wrote for a registered type decodes into a sink of
\* that type, whatever the length of the payload, and the user decoder is
\* handed exactly the payload.
C6_ExtRoundTrip ==
    (DecodedFrameOf({"Stamp"}) /\ op.arg.v = "Stamp")
        => (op.err = NoErr /\ op.out.v.payload = op.src.v.v.payload)

\* an Ext8 or FixExt8 frame whose type code is in no registry
IsUnknownExt(f) ==
    \/ ByteAt(f, 1) = Ext8 /\ ByteAt(f, 3) \notin DOMAIN decReg
    \/ ByteAt(f, 1) = FixExt8 /\ ByteAt(f, 2) \notin DOMAIN decReg

\* C7: Decode of an extension frame whose type code is in no decode registry
\* returns an error and assigns nothing to the sink.
C7_UnknownExtFails ==
    (/\ op.name = "Decode" /\ op.aligned /\ op.depth = 1
     /\ op.src.v.t = "foreign" /\ IsUnknownExt(op.src.bytes)
     /\ op.arg.v \notin InvalidSinks)
        => (op.err # NoErr /\ op.out = Untouched)

\* C8: an Encode call during which a write to the stream failed returns an
\* error.
C8_WriteFailurePropagates ==
    (op.name = "Encode" /\ op.wfailed) => op.err # NoErr

\* C9: EncodeString of a string of L bytes, no write failing, writes the tag
\* 0xa0|L for L < 32, Str8 and a 1-byte length for 32 <= L <= 255, Str16 and a
\* 2-byte big-endian length for 256 <= L <= 65535, Str32 and a 4-byte
\* big-endian length for 65536 <= L <= 2^32 - 1, each followed by the L bytes
\* of the string, and returns no error; for a longer string it returns an
\* error and writes nothing.
C9_StringWidth ==
    (op.name = "Encode" /\ op.arg.t = "string" /\ ~op.wfailed)
        => LET s == op.arg.v
               hi == WLen(s)[1]
               lo == WLen(s)[2]
               w == op.out.v
           IN  /\ (hi = 0 /\ lo < 32)
                     => (op.err = NoErr /\ w = Cat(Bytes(<<160 + lo>>), s))
               /\ (hi = 0 /\ 32 <= lo /\ lo <= 255)
                     => (op.err = NoErr /\ w = Cat(Bytes(<<217, lo>>), s))
               /\ (hi = 0 /\ 256 <= lo)
                     => (op.err = NoErr /\ w = Cat(Bytes(<<218>> \o BE2(lo)), s))
               /\ (1 <= hi /\ hi <= 65535)
                     => (op.err = NoErr /\ w = Cat(Bytes(<<219>> \o BE2(hi) \o BE2(lo)), s))
               /\ (hi > 65535) => (op.err # NoErr /\ w = <<>>)

\* EncodeString of a 32-byte string has written a Str8 frame
C9_Witness ==
    /\ op.name = "Encode"
    /\ op.arg.t = "string"
    /\ ~op.wfailed
    /\ WLen(op.arg.v) = Sz(32)
    /\ op.out.v = Cat(Bytes(<<217, 32>>), op.arg.v)

\* the bytes before the payload of an extension frame for a payload of l
\* bytes and the type code typ
ExtLayout(l, typ) ==
    LET hi == l[1]
        lo == l[2]
    IN  CASE hi = 0 /\ lo = 1 -> <<212, typ>>
          [] hi = 0 /\ lo = 2 -> <<213, typ>>
          [] hi = 0 /\ lo = 4 -> <<214, typ>>
          [] hi = 0 /\ lo = 8 -> <<215, typ>>
          [] hi = 0 /\ lo = 16 -> <<216, typ>>
          [] hi = 0 /\ lo \notin {1, 2, 4, 8, 16} /\ lo <= 255 -> <<199, lo, typ>>
          [] hi = 0 /\ lo > 255 -> <<200>> \o BE2(lo) \o <<typ>>
          [] OTHER -> <<201>> \o BE2(hi) \o BE2(lo) \o <<typ>>

\* C10: EncodeExt, no write failing, writes the tag of the payload's length
\* class, the length bytes of that class, the type code and then the payload
\* the user encoder wrote; when the user encoder fails it returns an error and
\* writes nothing.
C10_ExtLayout ==
    (op.name = "Encode" /\ op.arg.t = "Stamp" /\ ~op.wfailed)
        => IF op.arg.v.fail
           THEN op.err # NoErr /\ op.out.v = <<>>
           ELSE /\ op.err = NoErr
                /\ op.out.v = Cat(Bytes(ExtLayout(WLen(op.arg.v.payload), encReg["Stamp"])),
                                  op.arg.v.payload)

RECURSIVE Elems(_)
\* the bytes of a short byte sequence, one by one
Elems(w) == IF w = <<>> THEN <<>> ELSE <<w[1].b>> \o Elems(Drop(w, One))

RECURSIVE Uint8Frames(_)
\* the Uint8 frames (0xcc and the byte) of a tuple of bytes
Uint8Frames(bs) == IF bs = <<>> THEN <<>> ELSE <<204, bs[1]>> \o Uint8Frames(Tail(bs))

\* the elements of a u8 sequence: of a []uint8 (Go's []byte) or of a [3]uint8
U8Elems(v) == IF v.t = "bytes" THEN Elems(v.v) ELSE [i \in 1..Len(v.v) |-> v.v[i].v]

\* a sequence of fewer than 16 values of type u8
IsShortU8Seq(v) ==
    \/ v.t = "bytes" /\ SzLt(WLen(v.v), Sz(16))
    \/ v.t = "[3]uint8"

\* C11: Encode of a sequence of n < 16 values of type u8, no write failing,
\* returns no error and writes the FixArray header for n followed by n Uint8
\* frames (93 cc 01 cc 02 cc 03 for [1, 2, 3]).
C11_U8ArrayFrames ==
    (op.name = "Encode" /\ IsShortU8Seq(op.arg) /\ ~op.wfailed)
        => /\ op.err = NoErr
           /\ op.out.v = Bytes(<<144 + Len(U8Elems(op.arg))>> \o Uint8Frames(U8Elems(op.arg)))

\* the state of the Decoder: all that PeekCode and Decode read of the program
DecoderState == [r |-> stream, pool |-> pool, decReg |-> decReg]

\* C12: a PeekCode call on a non-empty stream returns the first unread byte
\* and no error, and it leaves the decoder as it was: the unread stream and
\* the pool are unchanged, so the next PeekCode returns the same byte and a
\* Decode after it, whatever its sink, is the Decode of the state before
\* the peek.
C12_PeekIdempotent ==
    [][op'.name = "PeekCode" =>
          /\ stream # <<>> => (op'.err = NoErr /\ op'.out = V("code", ByteAt(stream, 1)))
          /\ DecoderState' = DecoderState]_vars

\* a Decode called right after MaxPeeks PeekCode calls has decoded the one
\* frame of the stream into the value that was encoded
C12_Witness ==
    /\ op.name = "Decode" /\ op.peeks = MaxPeeks
    /\ op.err = NoErr /\ op.aligned /\ op.depth = 1
    /\ op.out = op.src.v

\* C13: a Decode whose sink is not a pointer or is a nil pointer returns an
\* InvalidDecodeError that holds the type of the sink, assigns nothing and
\* reads nothing: the unread stream and the pool are as before the call, so
\* a Decode after it, whatever its sink, is the Decode of the state before
\* the refused call.
C13_InvalidTarget ==
    [][(op'.name = "Decode" /\ op'.arg.v \in InvalidSinks) =>
          /\ op'.err = InvalidDecodeError
          /\ op'.typ = (IF op'.arg.v = "untyped nil" THEN "" ELSE op'.arg.v)
          /\ op'.out = Untouched
          /\ DecoderState' = DecoderState]_vars

\* a Decode with a nil pointer for a sink has been refused with one whole
\* frame unread
C13_Witness ==
    /\ op.name = "Decode" /\ op.arg.v = "nilptr"
    /\ op.err = InvalidDecodeError /\ op.typ = "nilptr"
    /\ Len(frames) = 1 /\ stream = frames[1].bytes /\ stream # <<>>

\* C14: Decode of a map frame whose key names a field of type pointer to
\* record, the value frame being a map, returns no error and leaves in the
\* field a pointer to a new record that holds what the value frame encodes:
\* the frame Encode wrote for an Owner with a Pet decodes into an Owner sink
\* as that Owner.
C14_PointerFieldBound ==
    (/\ DecodedFrameOf({"Owner"}) /\ op.arg.v = "Owner"
     /\ op.src.v.v[1].v # NilPtr)
        => /\ op.err = NoErr
           /\ op.out.t = "Owner"
           /\ op.out.v[1] = V("*Person", op.src.v.v[1].v)

\* the value x, as Decode gives it to an interface{} sink, converts to the
\* type ft
Fits(x, ft) == x.t # "nil" /\ ConvertibleTo(x.t, ft)

\* the declared type of the field of Person that the key k names
FieldType(k) == StructFields("Person")[name2field("Person")[k]].typ

\* C15: Decode of a map frame all of whose keys name fields of the record
\* sink, none of them a record or a pointer to a record, never aborts the
\* program; it returns an error when the value of some key does not convert
\* to the type of its field (a nil value converts to none), and when every
\* value converts it returns no error and every field named holds the
\* converted value.
C15_MismatchIsError ==
    (/\ DecodedFrameOf({"map[string]interface{}"})
     /\ op.arg.v = "Person"
     /\ BoundKeys(op.src.v.v, "Person") = DOMAIN op.src.v.v)
        => /\ op.err # Panic
           /\ (\E k \in DOMAIN op.src.v.v : ~Fits(op.src.v.v[k], FieldType(k)))
                 => op.err # NoErr
           /\ (\A k \in DOMAIN op.src.v.v : Fits(op.src.v.v[k], FieldType(k)))
                 => /\ op.err = NoErr
                    /\ \A k \in DOMAIN op.src.v.v :
                          op.out.v[name2field("Person")[k]]
                              = Convert(op.src.v.v[k], FieldType(k))

\* C16: no string decoder leaves bytes in a buffer it has released: every
\* buffer in the pool is empty, and a Decode of a Str8, Str16 or Str32 frame
\* that Encode wrote for a string returns that string, whatever was decoded
\* before it.
C16_ScratchProtocol ==
    /\ \A i \in 1..Len(pool) : pool[i] = <<>>
    /\ (/\ DecodedFrameOf({"string"})
        /\ op.arg.v \in {"string", "interface{}"}
        /\ ByteAt(op.src.bytes, 1) \in {Str8, Str16, Str32})
          => (op.err = NoErr /\ op.out = op.src.v)

====
